---- MODULE Spec2Model ----
(***************************************************************************)
(* A model of tagnews.geoloc.tag (src/lib/tagnews/geoloc/tag.py):          *)
(*   - post_process, the geostring normaliser (string level);              *)
(*   - GeoCoder.extract_geostrings, the span extraction over per-word      *)
(*     probabilities;                                                      *)
(*   - get_lat_longs_from_geostrings and                                   *)
(*     GeoCoder.lat_longs_from_geostring_lists, the two geocoding passes   *)
(*     and the fusion of their scores.                                     *)
(* A Python str is a sequence of one-character strings; a float is a       *)
(* record (NaN, Inf or a non-negative fraction).                           *)
(***************************************************************************)
EXTENDS Integers, Sequences, FiniteSets, TLC

VARIABLES
    pc,                 \* position of the running call
    s,                  \* extract_geostrings: the article text
    prob_thresh,        \* extract_geostrings: the threshold (grid units)
    words,              \* extract_geostrings: padded word list
    probs,              \* extract_geostring_probs: per-word probabilities
    predict_calls,      \* number of calls of self.model.predict
    switch_ons,         \* extract_geostrings: run starts
    switch_offs,        \* extract_geostrings: run ends (exclusive)
    geostrings,         \* extract_geostrings: the result
    geostring_lists,    \* lat_longs_from_geostring_lists: the argument
    geostring_list,     \* get_lat_longs_from_geostrings: the (rebound) list
    calls,              \* texts handed to geocoder.gisgraphy, in call order
    full_responses,     \* _geocode: responses of the pass in progress
    raw_pass,           \* results of the raw pass
    post_pass,          \* results of the post-processed pass
    returned,           \* what lat_longs_from_geostring_lists returned
    geostring,          \* post_process: the argument
    processed,          \* post_process(geostring)
    reprocessed         \* post_process(processed)

vars == <<pc, s, prob_thresh, words, probs, predict_calls, switch_ons,
          switch_offs, geostrings, geostring_lists, geostring_list, calls,
          full_responses, raw_pass, post_pass, returned, geostring,
          processed, reprocessed>>

extractVars == <<s, prob_thresh, words, probs, predict_calls, switch_ons,
                 switch_offs, geostrings>>
geocodeVars == <<geostring_lists, geostring_list, calls, full_responses,
                 raw_pass, post_pass, returned>>
postVars    == <<geostring, processed, reprocessed>>

(***************************************************************************)
(* Strings.                                                                *)
(***************************************************************************)
Whitespace == {" ", "\t", "\n"}
Digits     == {"0", "1", "2", "3", "4", "5", "6", "7", "8", "9"}
UpperCase  == <<"A","B","C","D","E","F","G","H","I","J","K","L","M",
                "N","O","P","Q","R","S","T","U","V","W","X","Y","Z">>
LowerCase  == <<"a","b","c","d","e","f","g","h","i","j","k","l","m",
                "n","o","p","q","r","s","t","u","v","w","x","y","z">>

\* str.lower() on one character
LowerChar(c) ==
    IF \E i \in 1..26 : UpperCase[i] = c
    THEN LowerCase[CHOOSE i \in 1..26 : UpperCase[i] = c]
    ELSE c

\* str.lower()
Lower(str) == [i \in 1..Len(str) |-> LowerChar(str[i])]

\* str.isupper() of one character
IsUpperChar(c) == \E i \in 1..26 : UpperCase[i] = c

\* whether sub occurs in str at position i (1-based)
OccursAt(sub, str, i) ==
    /\ i >= 1
    /\ i + Len(sub) - 1 <= Len(str)
    /\ SubSeq(str, i, i + Len(sub) - 1) = sub

\* sub in str
Contains(sub, str) == \E i \in 1..(Len(str) + 1) : OccursAt(sub, str, i)

\* str.endswith(sub)
EndsWith(str, sub) == OccursAt(sub, str, Len(str) - Len(sub) + 1)

\* str.strip()
RECURSIVE LStrip(_)
LStrip(str) ==
    IF str # <<>> /\ Head(str) \in Whitespace THEN LStrip(Tail(str)) ELSE str

RECURSIVE RStrip(_)
RStrip(str) ==
    IF str # <<>> /\ str[Len(str)] \in Whitespace
    THEN RStrip(SubSeq(str, 1, Len(str) - 1))
    ELSE str

Strip(str) == RStrip(LStrip(str))

\* length of the leading run of non-whitespace characters
RECURSIVE WordLen(_)
WordLen(str) ==
    IF str = <<>> \/ Head(str) \in Whitespace THEN 0 ELSE 1 + WordLen(Tail(str))

\* str.split(): the maximal runs of non-whitespace characters
RECURSIVE Split(_)
Split(str) ==
    LET t == LStrip(str)
        n == WordLen(t)
    IN  IF t = <<>> THEN <<>>
        ELSE <<SubSeq(t, 1, n)>> \o Split(SubSeq(t, n + 1, Len(t)))

\* sep.join(lst)
RECURSIVE Join(_, _)
Join(sep, lst) ==
    IF lst = <<>> THEN <<>>
    ELSE IF Len(lst) = 1 THEN lst[1]
    ELSE lst[1] \o sep \o Join(sep, Tail(lst))

\* str.replace(old, new), old non-empty: leftmost non-overlapping occurrences
RECURSIVE Replace(_, _, _)
Replace(str, old, new) ==
    IF Len(str) < Len(old) THEN str
    ELSE IF OccursAt(old, str, 1)
         THEN new \o Replace(SubSeq(str, Len(old) + 1, Len(str)), old, new)
         ELSE <<Head(str)>> \o Replace(Tail(str), old, new)

(***************************************************************************)
(* post_process.                                                           *)
(***************************************************************************)
StrChicago  == <<" ","C","h","i","c","a","g","o">>
StrIllinois == <<" ","I","l","l","i","n","o","i","s">>
LcChicago   == <<"c","h","i","c","a","g","o">>
LcIllinois  == <<"i","l","l","i","n","o","i","s">>
StrIlEnd    == <<" ","i","l">>
StrIlMid    == <<" ","i","l"," ">>
StrAnd      == <<" ","a","n","d">>
StrZerosAnd == <<"0","0"," ","a","n","d">>
Separator   == <<"<","_","_","i","n","t","e","r","n","a","l","_",
                 "s","e","p","a","r","a","t","o","r","_","_",">">>
\* the character class [th|rd|st] of the pattern: one of these characters
ClassChars  == {"t", "h", "|", "r", "d", "s"}
Stopwords   == << <<"b","l","o","c","k">>, <<"o","f">>, <<"a","n","d">> >>

\* length of the leading run of digits: the greedy match of [0-9]+
RECURSIVE DigitRun(_)
DigitRun(str) ==
    IF str = <<>> \/ Head(str) \notin Digits THEN 0 ELSE 1 + DigitRun(Tail(str))

\* number of digits the group ([0-9]+) takes when the pattern
\* ([0-9]+)[th|rd|st] and  matches at the start of str; 0 when it does not
\* (the class takes no digit, so only the greedy group can match)
MatchOrdinal(str) ==
    LET d == DigitRun(str)
    IN  IF /\ d >= 1
           /\ Len(str) >= d + 1 + Len(StrAnd)
           /\ str[d + 1] \in ClassChars
           /\ OccursAt(StrAnd, str, d + 2)
        THEN d ELSE 0

\* re.sub(r'([0-9]+)[th|rd|st] and', r'\1<__internal_separator__>00 and', str)
RECURSIVE ReSubOrdinal(_)
ReSubOrdinal(str) ==
    IF str = <<>> THEN <<>>
    ELSE LET d == MatchOrdinal(str)
         IN  IF d >= 1
             THEN SubSeq(str, 1, d) \o Separator \o StrZerosAnd
                  \o ReSubOrdinal(SubSeq(str, d + 2 + Len(StrAnd), Len(str)))
             ELSE <<Head(str)>> \o ReSubOrdinal(Tail(str))

\* the loop over ['block', 'of', 'and'], from stopword k on
RECURSIVE RemoveStopwords(_, _)
RemoveStopwords(str, k) ==
    IF k > Len(Stopwords) THEN str
    ELSE RemoveStopwords(
             Replace(str, <<" ">> \o Stopwords[k] \o <<" ">>, <<" ">>), k + 1)

AddChicago(str) ==
    IF ~Contains(LcChicago, Lower(str)) /\ ~Contains(LcIllinois, Lower(str))
    THEN str \o StrChicago ELSE str

AddIllinois(str) ==
    IF /\ ~Contains(LcIllinois, Lower(str))
       /\ ~EndsWith(Lower(str), StrIlEnd)
       /\ ~Contains(StrIlMid, Lower(str))
    THEN str \o StrIllinois ELSE str

RepairOrdinal(str) == Replace(ReSubOrdinal(str), Separator, <<>>)

post_process(str) ==
    RemoveStopwords(
        RepairOrdinal(AddIllinois(AddChicago(Join(<<" ">>, Split(str))))), 1)

(***************************************************************************)
(* The normaliser on its own: post_process applied once, then again to     *)
(* its own result.                                                         *)
(***************************************************************************)
MaxPieces == 4

W55th     == <<"5","5","t","h">>
W5t       == <<"5","t">>
WAnd      == <<"a","n","d">>
WOf       == <<"o","f">>
WBlock    == <<"b","l","o","c","k">>
WAndrew   == <<"a","n","d","r","e","w">>
WWoodlawn == <<"W","o","o","d","l","a","w","n">>
WIL       == <<"I","L">>
WChicago  == <<"C","h","i","c","a","g","o">>

\* the pieces the sample inputs are built from; the empty piece gives
\* leading, trailing and doubled spaces
Pieces == {<<>>, W55th, W5t, WAnd, WOf, WBlock, WAndrew, WWoodlawn, WIL,
           WChicago}

RECURSIVE SeqsUpTo(_, _)
SeqsUpTo(S, n) ==
    IF n = 0 THEN {<<>>}
    ELSE LET shorter == SeqsUpTo(S, n - 1)
         IN  shorter \cup {Append(q, x) : q \in shorter, x \in S}

PostInputs == {Join(<<" ">>, q) : q \in SeqsUpTo(Pieces, MaxPieces)}

ExtractIdle ==
    /\ s = <<>> /\ prob_thresh = 0 /\ words = <<>> /\ probs = <<>>
    /\ predict_calls = 0 /\ switch_ons = <<>> /\ switch_offs = <<>>
    /\ geostrings = <<>>

GeocodeIdle ==
    /\ geostring_lists = <<>> /\ geostring_list = <<>> /\ calls = <<>>
    /\ full_responses = <<>>
    /\ raw_pass = [full_responses |-> <<>>, lat_longs |-> <<>>, scores |-> <<>>]
    /\ post_pass = [full_responses |-> <<>>, lat_longs |-> <<>>, scores |-> <<>>]
    /\ returned = [lat_longs |-> <<>>, confidence |-> <<>>]

PostIdle == geostring = <<>> /\ processed = <<>> /\ reprocessed = <<>>

InitPost ==
    /\ pc = "post_start"
    /\ geostring \in PostInputs
    /\ processed = <<>>
    /\ reprocessed = <<>>
    /\ ExtractIdle
    /\ GeocodeIdle

PostProcess ==
    /\ pc = "post_start"
    /\ processed' = post_process(geostring)
    /\ pc' = "post_once"
    /\ UNCHANGED <<geostring, reprocessed, extractVars, geocodeVars>>

PostProcessAgain ==
    /\ pc = "post_once"
    /\ reprocessed' = post_process(processed)
    /\ pc' = "post_twice"
    /\ UNCHANGED <<geostring, processed, extractVars, geocodeVars>>

NextPost == PostProcess \/ PostProcessAgain

SpecPost == InitPost /\ [][NextPost]_vars

(***************************************************************************)
(* Claims about post_process.                                              *)
(***************************************************************************)
PostDone == pc \in {"post_once", "post_twice"}

\* C4: normalisation is idempotent: for every input string,
\* post_process(post_process(s)) = post_process(s).
PostProcessIdempotent == pc = "post_twice" => reprocessed = processed

Str55thAndWoodlawn == Join(<<" ">>, <<W55th, WAnd, WWoodlawn>>)
Tokens5500Woodlawn ==
    << <<"5","5","0","0">>, WWoodlawn, WChicago,
       <<"I","l","l","i","n","o","i","s">> >>

\* C5: ordinal repair: the geostring ["55th","and","Woodlawn"], joined and
\* passed through post_process, yields the tokens
\* "5500 Woodlawn Chicago Illinois" in that order.
OrdinalRepaired ==
    (PostDone /\ geostring = Str55thAndWoodlawn)
        => Split(processed) = Tokens5500Woodlawn

\* C9: the output of post_process contains no " block ", " of " or " and "
\* (the stopword with a space on both sides).
NoInteriorStopword ==
    PostDone =>
        \A k \in 1..Len(Stopwords) :
            ~Contains(<<" ">> \o Stopwords[k] \o <<" ">>, processed)

(***************************************************************************)
(* GeoCoder.pre_process, extract_geostring_probs and extract_geostrings.   *)
(* A probability is a number of grid steps, k standing for k / ProbGrid.   *)
(***************************************************************************)
MaxTextLen == 5
ProbGrid   == 2

TextChars == {" ", "\t", "a", "B"}
Texts     == SeqsUpTo(TextChars, MaxTextLen)
ProbLevels == 0..ProbGrid

Filler == <<"f","i","l","l","e","r">>

\* the rows of self.glove the sample words hit; any other word is absent
GloveKnown == { <<"a">>, <<"B">> }
GloveLookup(w) == IF w \in GloveKnown THEN <<1>> ELSE <<0>>

\* pre_process: the words, and per word the capitalisation flag followed
\* by the word's vector (zero when the word is not in the table)
pre_process(text) ==
    LET ws == Split(text)
    IN  [words |-> ws,
         data  |-> [i \in 1..Len(ws) |->
                      <<IF ws[i] # <<>> /\ IsUpperChar(ws[i][1]) THEN 1 ELSE 0>>
                      \o GloveLookup(ws[i])]]

\* self.model.predict(data)[0][:, 1]: one probability per row of data,
\* whatever the model answers
PredictOutcomes(data) == [1..Len(data) -> ProbLevels]

\* extract_geostring_probs without the test of s.strip(): the model is
\* asked even for a text with no word
extract_geostring_probs_no_guard(text) ==
    LET pre == pre_process(text)
    IN  {[words |-> pre.words, probs |-> p, predicted |-> 1] :
            p \in PredictOutcomes(pre.data)}

\* extract_geostring_probs: the possible results, with the number of calls
\* of predict each one made
extract_geostring_probs(text) ==
    IF Strip(text) = <<>>
    THEN {[words |-> <<>>, probs |-> <<>>, predicted |-> 0]}
    ELSE LET pre == pre_process(text)
         IN  {[words |-> pre.words, probs |-> p, predicted |-> 1] :
                 p \in PredictOutcomes(pre.data)}

\* probs > prob_thresh, elementwise
AboveThreshStrict(p, th) == [i \in 1..Len(p) |-> p[i] > th]

\* probs >= prob_thresh, elementwise
AboveThresh(p, th) == [i \in 1..Len(p) |-> p[i] >= th]

\* np.concatenate([[False], above_thresh, [False]]).astype(np.int32)
Pad(above) ==
    <<0>> \o [i \in 1..Len(above) |-> IF above[i] THEN 1 ELSE 0] \o <<0>>

\* np.diff(a): element i (0-based i - 1) is a[i + 1] - a[i]
Diff(a) == [i \in 1..(Len(a) - 1) |-> a[i + 1] - a[i]]

\* np.where(d == v)[0]: the 0-based indices at which d is v, ascending
RECURSIVE WhereFrom(_, _, _)
WhereFrom(d, v, i) ==
    IF i > Len(d) THEN <<>>
    ELSE (IF d[i] = v THEN <<i - 1>> ELSE <<>>) \o WhereFrom(d, v, i + 1)

Where(d, v) == WhereFrom(d, v, 1)

\* np.where(np.diff(above_thresh) == v)[0] + 1
Switches(padded, v) ==
    LET w == Where(Diff(padded), v) IN [k \in 1..Len(w) |-> w[k] + 1]

Min(a, b) == IF a <= b THEN a ELSE b

\* zip(a, b)
Zip(a, b) == [k \in 1..Min(Len(a), Len(b)) |-> <<a[k], b[k]>>]

\* lst[on:off] for 0 <= on, 0 <= off (0-based, off exclusive)
Slice(lst, on, off) == SubSeq(lst, on + 1, Min(off, Len(lst)))

InitExtract ==
    /\ pc = "extract_start"
    /\ s \in Texts
    /\ prob_thresh \in ProbLevels
    /\ words = <<>> /\ probs = <<>> /\ predict_calls = 0
    /\ switch_ons = <<>> /\ switch_offs = <<>> /\ geostrings = <<>>
    /\ GeocodeIdle
    /\ PostIdle

\* extract_geostrings(s, prob_thresh)
ExtractGeostrings ==
    /\ pc = "extract_start"
    /\ \E r \in extract_geostring_probs(s) :
          LET above  == Pad(AboveThresh(r.probs, prob_thresh))
              padded == <<Filler>> \o r.words \o <<Filler>>
              ons    == Switches(above, 1)
              offs   == Switches(above, -1)
              pairs  == Zip(ons, offs)
          IN  /\ probs' = r.probs
              /\ predict_calls' = predict_calls + r.predicted
              /\ words' = padded
              /\ switch_ons' = ons
              /\ switch_offs' = offs
              /\ geostrings' =
                    [k \in 1..Len(pairs) |->
                        Slice(padded, pairs[k][1], pairs[k][2])]
    /\ pc' = "extract_done"
    /\ UNCHANGED <<s, prob_thresh, geocodeVars, postVars>>

NextExtract == ExtractGeostrings

SpecExtract == InitExtract /\ [][NextExtract]_vars

(***************************************************************************)
(* Claims about extract_geostrings.                                        *)
(***************************************************************************)
\* the positions (1-based, in the article's word list) geostring k covers
Covered(k) == switch_ons[k] .. (switch_offs[k] - 1)

\* the positions whose probability is at or above the threshold
AbovePositions == {i \in 1..Len(probs) : probs[i] >= prob_thresh}

\* C1: the geostrings are exactly the maximal contiguous runs of word
\* positions whose probability is >= the threshold, left to right: each is
\* non-empty and is the article's words at the positions it covers, no two
\* overlap or touch, and together they cover exactly the positions at or
\* above the threshold (no sentinel word is emitted).
GeostringsAreMaximalRuns ==
    pc = "extract_done" =>
        /\ Len(switch_ons) = Len(geostrings)
        /\ Len(switch_offs) = Len(geostrings)
        /\ \A k \in 1..Len(geostrings) :
              /\ 1 <= switch_ons[k]
              /\ switch_ons[k] < switch_offs[k]
              /\ switch_offs[k] <= Len(probs) + 1
              /\ geostrings[k] # <<>>
              /\ geostrings[k] =
                    SubSeq(Split(s), switch_ons[k], switch_offs[k] - 1)
        /\ \A k \in 1..(Len(geostrings) - 1) :
              switch_offs[k] < switch_ons[k + 1]
        /\ UNION {Covered(k) : k \in 1..Len(geostrings)} = AbovePositions

\* two separate runs, the first touching the first word
GeostringsTwoRuns ==
    /\ pc = "extract_done"
    /\ Len(geostrings) = 2
    /\ switch_ons[1] = 1
    /\ Len(geostrings[2]) = 1
    /\ Len(probs) = 3

\* C8: for an empty or whitespace-only text extract_geostrings returns the
\* empty list and never calls the model's predict.
EmptyTextShortCircuits ==
    (pc = "extract_done" /\ Strip(s) = <<>>)
        => (geostrings = <<>> /\ predict_calls = 0)

\* a whitespace-only, non-empty text has been processed
WhitespaceTextProcessed ==
    /\ pc = "extract_done"
    /\ s = <<" ", "\t">>
    /\ geostrings = <<>>

(***************************************************************************)
(* Floats: NaN, +Inf or a non-negative fraction in lowest terms (the       *)
(* rounding of float32 is left out; the scores are non-negative).          *)
(***************************************************************************)
RECURSIVE Gcd(_, _)
Gcd(a, b) == IF b = 0 THEN a ELSE Gcd(b, a % b)

NaN  == [kind |-> "nan", num |-> 0, den |-> 1]
Inf  == [kind |-> "inf", num |-> 0, den |-> 1]
Num(n, d) ==
    LET g == Gcd(n, d) IN [kind |-> "num", num |-> n \div g, den |-> d \div g]
Zero == Num(0, 1)
One  == Num(1, 1)

\* a + b
FAdd(a, b) ==
    IF a.kind = "nan" \/ b.kind = "nan" THEN NaN
    ELSE IF a.kind = "inf" \/ b.kind = "inf" THEN Inf
    ELSE Num(a.num * b.den + b.num * a.den, a.den * b.den)

\* a / b as numpy divides arrays: x / 0 is inf for x > 0 and nan for x = 0
FDiv(a, b) ==
    IF a.kind = "nan" \/ b.kind = "nan" THEN NaN
    ELSE IF a.kind = "inf" THEN (IF b.kind = "inf" THEN NaN ELSE Inf)
    ELSE IF b.kind = "inf" THEN Zero
    ELSE IF b.num = 0 THEN (IF a.num = 0 THEN NaN ELSE Inf)
    ELSE Num(a.num * b.den, a.den * b.num)

(***************************************************************************)
(* get_lat_longs_from_geostrings and lat_longs_from_geostring_lists.       *)
(* A response of the geocoder is its coordinate (0: none) and the score    *)
(* its content carries, if any.                                            *)
(***************************************************************************)
MaxGeo == 2

WOhio == <<"O","h","i","o">>
SampleGeostrings == { <<W55th, WAnd, WWoodlawn>>, <<WOhio>>, <<WChicago, WIL>> }
SampleScores == {0, 2}

NoResult == [latlng |-> 0, has_score |-> FALSE, score |-> 0]
Unscored == [latlng |-> 1, has_score |-> FALSE, score |-> 0]
Responses ==
    {NoResult, Unscored} \cup
    {[latlng |-> 1, has_score |-> TRUE, score |-> sc] : sc \in SampleScores}

\* json.loads(g.response.content)['result'][0]['score'] inside try/except:
\* what the lookup would give if the name json were bound
ExtractScoreJsonBound(g) == IF g.has_score THEN Num(g.score, 1) ELSE NaN

\* the module never imports json, so evaluating json.loads raises NameError,
\* which the except clause turns into float('nan')
ExtractScore(g) == NaN

\* _geocode after its loop: lat_longs and scores of the responses
PassResults(responses) ==
    [full_responses |-> responses,
     lat_longs |-> [i \in 1..Len(responses) |-> responses[i].latlng],
     scores    |-> [i \in 1..Len(responses) |-> ExtractScore(responses[i])]]

EmptyPass == [full_responses |-> <<>>, lat_longs |-> <<>>, scores |-> <<>>]
NothingReturned == [lat_longs |-> <<>>, confidence |-> <<>>]

\* out.scores_raw[np.isnan(out.scores_raw)] = 0
NaNToZero(scores) ==
    [i \in 1..Len(scores) |-> IF scores[i].kind = "nan" THEN Zero ELSE scores[i]]

\* 1 / (1 + raw / post) with the result's NaN turned into 0
FuseNanToNum(raw, post) ==
    LET c == FDiv(One, FAdd(One, FDiv(raw, post)))
    IN  IF c.kind = "nan" THEN Zero ELSE c

\* 1 / (1 + raw / post)
Fuse(raw, post) == FDiv(One, FAdd(One, FDiv(raw, post)))

InitGeocode ==
    /\ pc = "geo_start"
    /\ geostring_lists \in SeqsUpTo(SampleGeostrings, MaxGeo)
    /\ geostring_list = <<>>
    /\ calls = <<>>
    /\ full_responses = <<>>
    /\ raw_pass = EmptyPass
    /\ post_pass = EmptyPass
    /\ returned = NothingReturned
    /\ ExtractIdle
    /\ PostIdle

\* lat_longs_from_geostring_lists joins each geostring and calls
\* get_lat_longs_from_geostrings, which enters _geocode for the raw pass
LatLongsFromGeostringLists ==
    /\ pc = "geo_start"
    /\ geostring_list' =
          [i \in 1..Len(geostring_lists) |-> Join(<<" ">>, geostring_lists[i])]
    /\ full_responses' = <<>>
    /\ pc' = "raw_loop"
    /\ UNCHANGED <<geostring_lists, calls, raw_pass, post_pass, returned,
                   extractVars, postVars>>

InLoop == pc \in {"raw_loop", "post_loop"}

\* one turn of the loop of _geocode: the geocoder answers
GeocodeResponds ==
    /\ InLoop
    /\ Len(full_responses) < Len(geostring_list)
    /\ \E g \in Responses :
          full_responses' = Append(full_responses, g)
    /\ calls' = Append(calls, geostring_list[Len(full_responses) + 1])
    /\ UNCHANGED <<pc, geostring_lists, geostring_list, raw_pass, post_pass,
                   returned, extractVars, postVars>>

\* one turn of the loop of _geocode: geocoder.gisgraphy raises; nothing
\* catches it, so it leaves _geocode, get_lat_longs_from_geostrings and
\* lat_longs_from_geostring_lists
GeocodeRaises ==
    /\ InLoop
    /\ Len(full_responses) < Len(geostring_list)
    /\ calls' = Append(calls, geostring_list[Len(full_responses) + 1])
    /\ pc' = "raised"
    /\ UNCHANGED <<geostring_lists, geostring_list, full_responses, raw_pass,
                   post_pass, returned, extractVars, postVars>>

\* the raw pass ends; the list is rebound to the post-processed texts and
\* _geocode is entered again
FinishRawPass ==
    /\ pc = "raw_loop"
    /\ Len(full_responses) = Len(geostring_list)
    /\ raw_pass' = PassResults(full_responses)
    /\ geostring_list' =
          [i \in 1..Len(geostring_list) |-> post_process(geostring_list[i])]
    /\ full_responses' = <<>>
    /\ pc' = "post_loop"
    /\ UNCHANGED <<geostring_lists, calls, post_pass, returned, extractVars,
                   postVars>>

\* the post-processed pass ends; get_lat_longs_from_geostrings returns and
\* lat_longs_from_geostring_lists fuses the scores
FinishPostPass ==
    /\ pc = "post_loop"
    /\ Len(full_responses) = Len(geostring_list)
    /\ LET out_post   == PassResults(full_responses)
           scores_raw == NaNToZero(raw_pass.scores)
       IN  /\ post_pass' = out_post
           /\ raw_pass' = [raw_pass EXCEPT !.scores = scores_raw]
           /\ returned' =
                 [lat_longs  |-> out_post.lat_longs,
                  confidence |-> [i \in 1..Len(scores_raw) |->
                                     Fuse(scores_raw[i], out_post.scores[i])]]
    /\ pc' = "geo_done"
    /\ UNCHANGED <<geostring_lists, geostring_list, calls, full_responses,
                   extractVars, postVars>>

NextGeocode ==
    \/ LatLongsFromGeostringLists
    \/ GeocodeResponds
    \/ GeocodeRaises
    \/ FinishRawPass
    \/ FinishPostPass

SpecGeocode == InitGeocode /\ [][NextGeocode]_vars

(***************************************************************************)
(* Claims about the geocoding passes and the fusion.                       *)
(***************************************************************************)
RawTexts ==
    [i \in 1..Len(geostring_lists) |-> Join(<<" ">>, geostring_lists[i])]
PostTexts == [i \in 1..Len(RawTexts) |-> post_process(RawTexts[i])]

GeoEnded == pc \in {"geo_done", "raised"}

\* C2: for n geostrings exactly 2n calls of the geocoder are made: call i
\* with the i-th raw text, call n + i with post_process of the i-th raw
\* text, none skipped and none repeated.
ExactlyTwoPassesOfCalls == GeoEnded => calls = RawTexts \o PostTexts

\* What does hold of the calls, ended or not: they are the first calls of
\* the raw pass followed by the post-processed pass.
CallsFollowTwoPasses ==
    /\ Len(calls) <= 2 * Len(geostring_lists)
    /\ calls = SubSeq(RawTexts \o PostTexts, 1, Len(calls))
    /\ pc = "geo_done" => Len(calls) = 2 * Len(geostring_lists)

\* C3: a geocoder call that raises for one geostring does not abort the
\* batch: the call is never left by the exception (it goes on and returns
\* one result per geostring).
GeocoderFailureDoesNotAbort == pc # "raised"

\* the normalized-pass score of geostring i is 0 or NaN: the score
\* extracted into scores_post, or the one the geocoder's answer carried
PostScoreZeroOrNaN(i) ==
    \/ post_pass.scores[i] \in {Zero, NaN}
    \/ ~post_pass.full_responses[i].has_score
    \/ post_pass.full_responses[i].score = 0

RawNaNLeniency ==
    pc = "geo_done" =>
        \A i \in 1..Len(returned.confidence) :
            (/\ ~raw_pass.full_responses[i].has_score
             /\ post_pass.full_responses[i].has_score
             /\ post_pass.full_responses[i].score > 0)
                => returned.confidence[i] = One

\* C10: the score extracted from every response is NaN in both passes, and
\* every fused confidence returned is NaN (raw NaN replaced by 0, divided
\* by the normalized NaN).
AllScoresAndConfidencesNaN ==
    /\ pc = "post_loop" =>
          \A i \in 1..Len(raw_pass.scores) : raw_pass.scores[i] = NaN
    /\ pc = "geo_done" =>
          /\ Len(returned.confidence) = Len(geostring_lists)
          /\ \A i \in 1..Len(geostring_lists) :
                /\ raw_pass.scores[i] = Zero
                /\ post_pass.scores[i] = NaN
                /\ returned.confidence[i] = NaN

\* both responses for a geostring carried a positive score and the call
\* returned
ScoredResponsesReturned ==
    /\ pc = "geo_done"
    /\ Len(geostring_lists) >= 1
    /\ \A i \in 1..Len(geostring_lists) :
          /\ raw_pass.full_responses[i].has_score
          /\ raw_pass.full_responses[i].score > 0
          /\ post_pass.full_responses[i].has_score
          /\ post_pass.full_responses[i].score > 0
          /\ returned.confidence[i] = NaN

====
